---------------------------- MODULE Spec2Model ----------------------------
(***************************************************************************)
(* Model of src/app.js: the image gallery pipeline.                        *)
(*                                                                         *)
(*   generateImageMetadata   (Metadata Extractor, lines 54-75)             *)
(*   sortAndCategorizeImages (Group Sorter, lines 77-93)                   *)
(*   the DOMContentLoaded closure (lines 94-287): imageDataStore, the      *)
(*   handlers handleImageUpload, handleMetadataGeneration, handleSorting   *)
(*   and the rendering functions.                                          *)
(*                                                                         *)
(* JavaScript runs one task at a time.  A handler runs up to its first     *)
(* await; the continuation of an await runs when the awaited promise       *)
(* settles, together with every promise reaction that follows from it      *)
(* (microtasks run before the next task).  So one action is one task: a    *)
(* DOM event with its handler, the end of a file read, or the arrival of   *)
(* one answer of the model capability with all the continuations it        *)
(* triggers.                                                               *)
(*                                                                         *)
(* Indexes are 1-based here (card-0 of the source is card 1).              *)
(***************************************************************************)
EXTENDS Integers, Sequences, FiniteSets, TLC

\* ------------------------------------------------------------------ bounds
MaxImages  == 2   \* files in one selection, images in one Extractor batch
MaxUploads == 2   \* change events of the file input that select files
MaxSorts   == 2   \* Sorter calls the page makes
MaxAnswer  == 3   \* groups plus members in one Sorter answer
MaxApiCalls == 2  \* direct calls of the two exported functions

\* ------------------------------------------------------------------ values
\* null and undefined of JavaScript (records, so that they compare with
\* metadata records).
Null      == [nil |-> "null"]
Undefined == [nil |-> "undefined"]

\* Boolean(x) for the values a metadata slot can hold (line 183, line 227).
Truthy(x) == x \notin {Null, Undefined}

Descriptions == {"d1", "d2"}

\* The object the schema of lines 22-36 describes.  has_people stands for
\* the fields other than description (categories, dominant_colors,
\* has_people), which the code only copies and prints.  Two of the values
\* share a description and differ elsewhere.
Metadata ==
  {m \in [description : Descriptions, has_people : BOOLEAN] :
     m.has_people => m.description = "d1"}

\* A File object of a selection: files[position] of the change event
\* number upload.  Every event delivers new objects.
File(upload, position) == [upload |-> upload, position |-> position]

SortDimensions == {"color", "people"}

\* All sequences over S of length at most n.
SeqUpTo(S, n) == UNION {[1..k -> S] : k \in 0..n}

\* event.target.files of the change event number upload with n files.
Selection(upload, n) == [i \in 1..n |-> File(upload, i)]

\* ------------------------------------------------------- model capability
\* The text of an answer is a token sequence; JSON.stringify writes a value
\* between braces, and a text cut short has lost its closing brace.
JSONStringify(v) == <<"{", v, "}">>

Truncated(v) == <<"{", v>>

\* JSON.parse (lines 68, 88): the value, or a SyntaxError.
JSONParse(text) ==
  IF Len(text) = 3 /\ text[1] = "{" /\ text[3] = "}"
  THEN [ok |-> TRUE, value |-> text[2]]
  ELSE [ok |-> FALSE, value |-> Undefined]

\* An answer of model.generateContent: the promise rejects, or resolves
\* with a response whose text() is given.
Rejects == [rejects |-> TRUE, text |-> <<>>]

Answers(text) == [rejects |-> FALSE, text |-> text]

\* Answers to an Extractor request (line 67).
ExtractorResponses ==
  {Rejects}
  \cup {Answers(JSONStringify(m)) : m \in Metadata}
  \cup {Answers(Truncated(m)) : m \in {x \in Metadata : x.description = "d2"}}


\* --------------------------------------------------- generateImageMetadata
\* One call of generateImageMetadata (lines 54-75) is a record
\*   slots   : one entry per image, the async callback of lines 61-69:
\*             st     "reading"   awaiting fileToGenerativePart (line 62)
\*                    "readFailed" the read failed: the await of line 62
\*                                never ends
\*                    "calling"   awaiting model.generateContent (line 67)
\*                    "fulfilled" returned the parsed value (line 68)
\*                    "rejected"  generateContent or JSON.parse threw
\*             answer the answer received at line 67 (Null before it)
\*             value  what the callback's promise resolved with
\*   outcome : "pending", "returned" or "threw" (the promise the caller awaits)
\*   result  : the sequence returned
NewSlot == [st |-> "reading", answer |-> Null, value |-> Undefined]

\* Promise.all (line 70) over the callbacks' promises: rejected as soon as
\* one is rejected, fulfilled with the values in input order once all are.
PromiseAll(slots) ==
  IF \E i \in 1..Len(slots) : slots[i].st = "rejected"
  THEN [state |-> "rejected", values |-> <<>>]
  ELSE IF \A i \in 1..Len(slots) : slots[i].st = "fulfilled"
       THEN [state |-> "fulfilled",
             values |-> [i \in 1..Len(slots) |-> slots[i].value]]
       ELSE [state |-> "pending", values |-> <<>>]

\* A catch block that keeps what succeeded so far.
CatchReturnsPartial(slots) ==
  LET done == {i \in 1..Len(slots) : slots[i].st = "fulfilled"}
      pick[k \in 0..Len(slots)] ==
        IF k = 0 THEN <<>>
        ELSE IF k \in done THEN Append(pick[k - 1], slots[k].value)
             ELSE pick[k - 1]
  IN  [outcome |-> "returned", result |-> pick[Len(slots)]]

\* The catch block of lines 71-74: log, return [].
CatchReturnsEmpty(slots) == [outcome |-> "returned", result |-> <<>>]

\* try { ... return await Promise.all(...) } catch { return [] }, lines 55-74.
ExtractorOutcome(slots) ==
  LET all == PromiseAll(slots)
  IN  CASE all.state = "fulfilled" ->
             [outcome |-> "returned", result |-> all.values]
        [] all.state = "rejected" -> CatchReturnsEmpty(slots)
        [] OTHER -> [outcome |-> "pending", result |-> <<>>]

\* The call as it stands once its synchronous part has run: every callback
\* of images.map has started and awaits its file read.
ExtractorStart(images) ==
  LET slots == [i \in 1..Len(images) |-> NewSlot]
      out   == ExtractorOutcome(slots)
  IN  [slots |-> slots, outcome |-> out.outcome, result |-> out.result]

\* Once the promise of the call has settled, nothing changes it.
ExtractorAdvance(call, slots) ==
  IF call.outcome # "pending"
  THEN [call EXCEPT !.slots = slots]
  ELSE LET out == ExtractorOutcome(slots)
       IN  [slots |-> slots, outcome |-> out.outcome, result |-> out.result]

\* The file of image i has been read (line 62): lines 63-67 run and the
\* request is sent.
ExtractorFileRead(call, i) ==
  [call EXCEPT !.slots[i].st = "calling"]

\* The read of the file of image i has failed: loadend fires with
\* reader.result null, reader.result.split (line 14) throws a TypeError
\* inside the event handler, resolve is never called and the promise
\* awaited at line 62 stays pending for ever.  No request is sent.
ExtractorFileReadFails(call, i) ==
  [call EXCEPT !.slots[i].st = "readFailed"]

\* A callback that appends its value to the results in completion order.
SlotSettlePush(slots, i, resp) ==
  LET parsed == JSONParse(resp.text)
      k == Cardinality({j \in 1..Len(slots) : slots[j].st = "fulfilled"}) + 1
  IN  IF resp.rejects \/ ~parsed.ok
      THEN [slots EXCEPT ![i].st = "rejected", ![i].answer = resp]
      ELSE [[slots EXCEPT ![i].st = "fulfilled", ![i].answer = resp]
              EXCEPT ![k].value = parsed.value]

\* Lines 67-68 for image i on the answer resp: the callback's promise is
\* rejected when generateContent rejects or JSON.parse throws, and is
\* fulfilled with the parsed value otherwise.
SlotSettle(slots, i, resp) ==
  LET parsed == JSONParse(resp.text)
  IN  IF resp.rejects \/ ~parsed.ok
      THEN [slots EXCEPT ![i].st = "rejected", ![i].answer = resp]
      ELSE [slots EXCEPT ![i].st = "fulfilled", ![i].answer = resp,
                         ![i].value = parsed.value]

\* The answer for image i arrives.
ExtractorRespond(call, i, resp) ==
  ExtractorAdvance(call, SlotSettle(call.slots, i, resp))

\* ------------------------------------------------- sortAndCategorizeImages
\* An array that may be missing (null or undefined): the argument
\* imageMetadataArray, and the images of a group.
Missing == [missing |-> TRUE, items |-> <<>>]

Given(items) == [missing |-> FALSE, items |-> items]

EmptyGroups == [sorted_groups |-> <<>>]

\* A Sorter without the guard of line 78.
SorterNeverShortCircuits(arg) == FALSE

\* Line 78: !imageMetadataArray || imageMetadataArray.length === 0.
SorterShortCircuits(arg) == arg.missing \/ Len(arg.items) = 0

\* The number of requests the call sends to the model capability (line 87).
SorterRequests(arg) == IF SorterShortCircuits(arg) THEN 0 ELSE 1

\* A catch block that lets the failure through to the caller.
SorterRethrows(resp) ==
  LET parsed == JSONParse(resp.text)
  IN  IF resp.rejects \/ ~parsed.ok
      THEN [outcome |-> "threw", result |-> EmptyGroups]
      ELSE [outcome |-> "returned", result |-> parsed.value]

\* Lines 87-92 on the answer resp: the parsed value, or { sorted_groups: [] }
\* when generateContent rejects or JSON.parse throws.
SorterOutcome(resp) ==
  LET parsed == JSONParse(resp.text)
  IN  IF resp.rejects \/ ~parsed.ok
      THEN [outcome |-> "returned", result |-> EmptyGroups]
      ELSE [outcome |-> "returned", result |-> parsed.value]

\* A group of a Sorter answer (lines 38-52).  images is Missing in an
\* answer that does not follow the schema.
Group(name, images) == [group_name |-> name, images |-> images]

GroupNames == <<"g1", "g2", "g3", "g4">>

\* The most groups an answer holds: a group of the largest answers has a
\* member.
MaxGroups == IF MaxAnswer <= 4 THEN MaxAnswer ELSE 4

\* The member sequences of n groups holding at most m members in all.
RECURSIVE MemberLists(_, _)
MemberLists(n, m) ==
  IF n = 0 THEN {<<>>}
  ELSE UNION {{<<first>> \o rest : rest \in MemberLists(n - 1, m - Len(first))} :
                first \in SeqUpTo(Metadata, m)}

\* The members of all the groups of a group list.
MemberCount(groups) ==
  LET sum[g \in 0..Len(groups)] ==
        IF g = 0 THEN 0 ELSE sum[g - 1] + Len(groups[g].images.items)
  IN  sum[Len(groups)]

\* The group lists that follow the schema.
GroupLists ==
  UNION {{[k \in 1..n |-> Group(GroupNames[k], Given(ms[k]))] :
            ms \in MemberLists(n, MaxAnswer - n)} : n \in 0..MaxGroups}

\* A group list whose last group has no images array.
BrokenGroupLists ==
  {Append(gs, Group(GroupNames[Len(gs) + 1], Missing)) :
     gs \in {g \in GroupLists :
               /\ Len(g) < MaxGroups
               /\ Len(g) + 1 + MemberCount(g) <= MaxAnswer}}

\* Answers to a Sorter request (line 87).
SorterResponses ==
  {Rejects}
  \cup {Answers(Truncated([sorted_groups |-> <<>>]))}
  \cup {Answers(JSONStringify([sorted_groups |-> gs])) : gs \in GroupLists \cup BrokenGroupLists}

\* ---------------------------------------------------------------- the page
VARIABLES
  imageDataStore,      \* line 102: sequence of [file, previewUrl, metadata]
  metadataWrites,      \* history: per record, the assignments of line 163
  genCalls,            \* per record, the generateImageMetadata call of line 162
  sortCalls,           \* the sortAndCategorizeImages calls awaited at line 194,
                       \* each with the number of the upload whose records it read
  generateBtnDisabled, \* generateBtn.disabled
  imageUploadDisabled, \* imageUpload.disabled
  userInputDisabled,   \* userInput.disabled
  sortBtnDisabled,     \* .disabled of the .sort-btn buttons
  sortControlsHidden,  \* sortControls has class 'hidden'
  statusContainer,     \* the text of statusContainer
  resultsContainer,    \* the content of resultsContainer
  modelCalls,          \* requests sent to the model capability (lines 67, 87)
  uploads,             \* change events with files delivered so far
  sorts,               \* Sorter calls issued by the page so far
  lastEvent,           \* history: the task that ran last, with its input
  apiExtract,          \* a direct call of generateImageMetadata
  apiSort,             \* a direct call of sortAndCategorizeImages
  apiCalls             \* direct calls made so far

vars == <<imageDataStore, metadataWrites, genCalls, sortCalls,
          generateBtnDisabled, imageUploadDisabled, userInputDisabled,
          sortBtnDisabled, sortControlsHidden, statusContainer,
          resultsContainer, modelCalls, uploads, sorts, lastEvent,
          apiExtract, apiSort, apiCalls>>

pageVars == <<imageDataStore, metadataWrites, genCalls, sortCalls,
              generateBtnDisabled, imageUploadDisabled, userInputDisabled,
              sortBtnDisabled, sortControlsHidden, statusContainer,
              resultsContainer, uploads, sorts>>

apiVars == <<apiExtract, apiSort, apiCalls>>

\* The text of statusContainer: a fixed text, with the sort dimension or the
\* image count some texts embed.
Status(text, sortBy, count) == [text |-> text, sortBy |-> sortBy, count |-> count]

NoStatus == Status("", "", 0)

Event(op, index, resp, sortBy) ==
  [op |-> op, index |-> index, resp |-> resp, sortBy |-> sortBy]

NoResp == [rejects |-> FALSE, text |-> <<>>]

\* The inner HTML of a card's .metadata-container.
Body(kind, metadata) == [kind |-> kind, metadata |-> metadata]

\* resultsContainer: the class 'sorted', the placeholder paragraph, the
\* preview cards (with their ids) and the group sections.
Container(sorted, placeholder, cards, groups) ==
  [sorted |-> sorted, placeholder |-> placeholder, cards |-> cards, groups |-> groups]

\* displayImagePreviews, lines 127-140.
displayImagePreviews(container, store) ==
  Container(FALSE, FALSE,
            [i \in 1..Len(store) |->
               [id |-> i, img |-> store[i].previewUrl, body |-> Body("empty", Null)]],
            <<>>)

\* document.getElementById(`card-${index}`): only preview cards carry an id.
HasCard(container, index) ==
  \E k \in 1..Len(container.cards) : container.cards[k].id = index

SetBody(container, index, body) ==
  [container EXCEPT !.cards =
     [k \in 1..Len(container.cards) |->
        IF container.cards[k].id = index
        THEN [container.cards[k] EXCEPT !.body = body]
        ELSE container.cards[k]]]

\* Lines 150-156: a spinner in every card that exists.
ShowSpinners(container, store) ==
  [container EXCEPT !.cards =
     [k \in 1..Len(container.cards) |->
        IF container.cards[k].id \in 1..Len(store)
        THEN [container.cards[k] EXCEPT !.body = Body("spinner", Null)]
        ELSE container.cards[k]]]

\* updateCardWithMetadata, lines 240-255.  Without the card it returns; with
\* it, metadata.dominant_colors (line 245) throws a TypeError when metadata
\* is null or undefined.
updateCardWithMetadata(container, index, metadata) ==
  IF ~HasCard(container, index)
  THEN [threw |-> FALSE, container |-> container]
  ELSE IF ~Truthy(metadata)
       THEN [threw |-> TRUE, container |-> container]
       ELSE [threw |-> FALSE,
             container |-> SetBody(container, index, Body("metadata", metadata))]

\* updateCardWithError, lines 257-262.
updateCardWithError(container, index) ==
  IF ~HasCard(container, index)
  THEN container
  ELSE SetBody(container, index, Body("error", Null))

\* Array.prototype.find of lines 226-228: the first record whose metadata is
\* truthy and whose description equals the member's; 0 when there is none.
FindByDescription(store, member) ==
  LET hits == {i \in 1..Len(store) :
                 /\ Truthy(store[i].metadata)
                 /\ store[i].metadata.description = member.description}
  IN  IF hits = {} THEN 0 ELSE CHOOSE i \in hits : \A j \in hits : i <= j

\* createImageCard, lines 264-274, with updateMetadataContent, lines 276-286.
createImageCard(previewUrl, metadata) == [img |-> previewUrl, metadata |-> metadata]

\* A loop body that builds the card without testing originalData.
GroupCardsUnguarded(images, store) ==
  LET found == SelectSeq(images, LAMBDA m : FindByDescription(store, m) # 0)
  IN  [threw |-> Len(found) # Len(images),
       cards |-> [k \in 1..Len(found) |->
                    LET d == store[FindByDescription(store, found[k])]
                    IN  createImageCard(d.previewUrl, d.metadata)]]

\* The loop of lines 225-234 over the members of one group: a card for every
\* member that finds a record, nothing for the others.
GroupCards(images, store) ==
  LET found == SelectSeq(images, LAMBDA m : FindByDescription(store, m) # 0)
  IN  [threw |-> FALSE,
       cards |-> [k \in 1..Len(found) |->
                    LET d == store[FindByDescription(store, found[k])]
                    IN  createImageCard(d.previewUrl, d.metadata)]]

\* displaySortedResults, lines 205-238.  group.images.forEach (line 225)
\* throws a TypeError on a group without images; the sections appended
\* before it stay (line 236 comes after the loop).
displaySortedResults(container, sortedData, store) ==
  LET groups  == sortedData.sorted_groups
      bad     == {g \in 1..Len(groups) :
                    groups[g].images.missing
                    \/ GroupCards(groups[g].images.items, store).threw}
      stop    == IF bad = {} THEN Len(groups) + 1
                 ELSE CHOOSE g \in bad : \A h \in bad : g <= h
      section(g) == [title |-> groups[g].group_name,
                     cards |-> GroupCards(groups[g].images.items, store).cards]
  IN  IF Len(groups) = 0
      THEN [threw |-> FALSE, container |-> Container(TRUE, TRUE, <<>>, <<>>)]
      ELSE [threw |-> stop <= Len(groups),
            container |-> Container(TRUE, FALSE, <<>>,
                                    [g \in 1..(stop - 1) |-> section(g)])]

\* No direct call of sortAndCategorizeImages is being looked at.
NoSorterCall == [outcome |-> "idle", arg |-> Missing, result |-> EmptyGroups]

\* ------------------------------------------------------------------- Init
\* The state after the DOMContentLoaded listener has run (lines 94-106).
\* Whether the page starts with the generate button disabled and the sort
\* controls hidden is set by its HTML, which the script does not touch.
Init ==
  /\ imageDataStore = <<>>
  /\ metadataWrites = <<>>
  /\ genCalls = <<>>
  /\ sortCalls = {}
  /\ generateBtnDisabled \in BOOLEAN
  /\ imageUploadDisabled = FALSE
  /\ userInputDisabled = FALSE
  /\ sortBtnDisabled = FALSE
  /\ sortControlsHidden \in BOOLEAN
  /\ statusContainer = NoStatus
  /\ resultsContainer = Container(FALSE, FALSE, <<>>, <<>>)
  /\ modelCalls = 0
  /\ uploads = 0
  /\ sorts = 0
  /\ lastEvent = Event("init", 0, NoResp, "")
  /\ apiExtract = ExtractorStart(<<>>)
  /\ apiSort = NoSorterCall
  /\ apiCalls = 0

\* ------------------------------------------------------ handleImageUpload
\* The change event of the file input with the selection files (lines
\* 108-125).  A disabled input delivers no event.  URL.createObjectURL
\* returns a fresh URL on every call: <<upload number, position>>.  The
\* task's index in lastEvent is the number of files.
\* A handler that keeps the records it has and adds the new ones.
UploadAppends(store, files, upload) ==
  store \o [i \in 1..Len(files) |->
             [file |-> files[i], previewUrl |-> <<upload, i>>, metadata |-> Null]]

\* Lines 112-121: the store is emptied and then holds files.map(...), one
\* record per file with its fresh preview URL and metadata null.
UploadReplaces(store, files, upload) ==
  [i \in 1..Len(files) |->
     [file |-> files[i], previewUrl |-> <<upload, i>>, metadata |-> Null]]

handleImageUpload(files) ==
  /\ ~imageUploadDisabled
  /\ uploads < MaxUploads
  /\ lastEvent' = Event("upload", Len(files), NoResp, "")
  /\ IF Len(files) = 0
     THEN UNCHANGED <<imageDataStore, metadataWrites, genCalls,
                      sortControlsHidden, resultsContainer, statusContainer,
                      generateBtnDisabled, uploads>>
     ELSE /\ uploads' = uploads + 1
          /\ imageDataStore' = UploadReplaces(imageDataStore, files, uploads + 1)
          /\ metadataWrites' = [i \in 1..Len(imageDataStore') |-> 0]
          /\ genCalls' = <<>>
          /\ sortControlsHidden' = TRUE
          /\ resultsContainer' = displayImagePreviews(resultsContainer, imageDataStore')
          /\ statusContainer' = NoStatus
          /\ generateBtnDisabled' = FALSE
  /\ UNCHANGED <<sortCalls, imageUploadDisabled, userInputDisabled,
                 sortBtnDisabled, modelCalls, sorts>>
  /\ UNCHANGED apiVars

\* ------------------------------------------------ handleMetadataGeneration
\* A handler that leaves the generate button enabled while it runs.
GenerateButtonLeftEnabled ==
  [generateBtn |-> FALSE, imageUpload |-> TRUE, userInput |-> TRUE]

\* A handler that leaves the upload input enabled while it runs.
UploadInputLeftEnabled ==
  [generateBtn |-> TRUE, imageUpload |-> FALSE, userInput |-> TRUE]

\* Lines 145-147: the .disabled the handler sets before it starts the calls.
DisabledWhileGenerating ==
  [generateBtn |-> TRUE, imageUpload |-> TRUE, userInput |-> TRUE]

\* The click on the generate button (lines 142-169, up to the await of line
\* 171).  imageDataStore.map runs every callback up to its first await, so
\* each record's generateImageMetadata call is started here: all of them
\* before the handler awaits anything.
handleMetadataGeneration ==
  /\ ~generateBtnDisabled
  /\ lastEvent' = Event("generate", 0, NoResp, "")
  /\ IF Len(imageDataStore) = 0
     THEN UNCHANGED <<generateBtnDisabled, imageUploadDisabled, userInputDisabled,
                      statusContainer, resultsContainer, genCalls>>
     ELSE /\ generateBtnDisabled' = DisabledWhileGenerating.generateBtn
          /\ imageUploadDisabled' = DisabledWhileGenerating.imageUpload
          /\ userInputDisabled' = DisabledWhileGenerating.userInput
          /\ statusContainer' = Status("Analyzing images...", "", Len(imageDataStore))
          /\ resultsContainer' = ShowSpinners(resultsContainer, imageDataStore)
          /\ genCalls' = [i \in 1..Len(imageDataStore) |->
                            ExtractorStart(<<imageDataStore[i].file>>)]
  /\ UNCHANGED <<imageDataStore, metadataWrites, sortCalls, sortBtnDisabled,
                 sortControlsHidden, modelCalls, uploads, sorts>>
  /\ UNCHANGED apiVars

\* The per-record calls that have not returned yet.
Outstanding == {i \in 1..Len(genCalls) : genCalls[i].outcome = "pending"}

\* The file of record i has been read: its request goes to the model.
FileRead(i) ==
  /\ i \in 1..Len(genCalls)
  /\ genCalls[i].slots[1].st = "reading"
  /\ genCalls' = [genCalls EXCEPT ![i] = ExtractorFileRead(genCalls[i], 1)]
  /\ modelCalls' = modelCalls + 1
  /\ lastEvent' = Event("fileRead", i, NoResp, "")
  /\ UNCHANGED <<imageDataStore, metadataWrites, sortCalls, generateBtnDisabled,
                 imageUploadDisabled, userInputDisabled, sortBtnDisabled,
                 sortControlsHidden, statusContainer, resultsContainer,
                 uploads, sorts>>
  /\ UNCHANGED apiVars

\* The read of the file of record i has failed: the call of line 162 never
\* returns.  The TypeError of line 14 is thrown in the FileReader's event
\* handler, outside every try block, and changes nothing on the page.
FileReadFails(i) ==
  /\ i \in 1..Len(genCalls)
  /\ genCalls[i].slots[1].st = "reading"
  /\ genCalls' = [genCalls EXCEPT ![i] = ExtractorFileReadFails(genCalls[i], 1)]
  /\ lastEvent' = Event("fileReadFails", i, NoResp, "")
  /\ UNCHANGED <<imageDataStore, metadataWrites, sortCalls, generateBtnDisabled,
                 imageUploadDisabled, userInputDisabled, sortBtnDisabled,
                 sortControlsHidden, statusContainer, resultsContainer,
                 modelCalls, uploads, sorts>>
  /\ UNCHANGED apiVars

\* Lines 162-168 once the call of record index has settled: the first
\* element of the result (undefined for []) is stored and shown; a throw,
\* of the call or of updateCardWithMetadata, ends in updateCardWithError.
HandlerContinuation(store, container, index, call) ==
  IF call.outcome = "threw"
  THEN [store |-> store, wrote |-> FALSE,
        container |-> updateCardWithError(container, index)]
  ELSE LET metadata == IF Len(call.result) > 0 THEN call.result[1] ELSE Undefined
           shown    == updateCardWithMetadata(container, index, metadata)
       IN  [store |-> [store EXCEPT ![index].metadata = metadata],
            wrote |-> TRUE,
            container |-> IF shown.threw
                          THEN updateCardWithError(container, index)
                          ELSE shown.container]

\* A join that is satisfied by the first callback to finish.
JoinOnFirst(calls) == \E i \in 1..Len(calls) : calls[i].outcome # "pending"

\* await Promise.all(metadataPromises), line 171: every callback of line
\* 160 has finished (none of them rejects: each catches its own failure).
JoinReady(calls) == \A i \in 1..Len(calls) : calls[i].outcome # "pending"

\* Lines 173-176, after the await of line 171: the status, the sort
\* controls shown, the two inputs enabled.
AnalysisComplete ==
  [status |-> Status("Analysis complete!", "", 0), sortControlsHidden |-> FALSE,
   imageUpload |-> FALSE, userInput |-> FALSE]

\* The answer resp to the request of record i arrives: the call returns, the
\* callback of lines 160-169 finishes, and when it was the last one the
\* handler goes on with lines 173-176.
ModelResponds(i, resp) ==
  /\ i \in 1..Len(genCalls)
  /\ genCalls[i].slots[1].st = "calling"
  /\ LET call == ExtractorRespond(genCalls[i], 1, resp)
         cont == IF call.outcome = "pending"
                 THEN [store |-> imageDataStore, wrote |-> FALSE,
                       container |-> resultsContainer]
                 ELSE HandlerContinuation(imageDataStore, resultsContainer, i, call)
     IN  /\ genCalls' = [genCalls EXCEPT ![i] = call]
         /\ imageDataStore' = cont.store
         /\ metadataWrites' =
              [metadataWrites EXCEPT ![i] = @ + (IF cont.wrote THEN 1 ELSE 0)]
         /\ resultsContainer' = cont.container
  /\ IF JoinReady(genCalls')
     THEN /\ statusContainer' = AnalysisComplete.status
          /\ sortControlsHidden' = AnalysisComplete.sortControlsHidden
          /\ imageUploadDisabled' = AnalysisComplete.imageUpload
          /\ userInputDisabled' = AnalysisComplete.userInput
     ELSE UNCHANGED <<statusContainer, sortControlsHidden, imageUploadDisabled,
                      userInputDisabled>>
  /\ lastEvent' = Event("modelResponds", i, resp, "")
  /\ UNCHANGED <<sortCalls, generateBtnDisabled, sortBtnDisabled, modelCalls,
                 uploads, sorts>>
  /\ UNCHANGED apiVars

\* ----------------------------------------------------------- handleSorting
\* A line 183 without filter(Boolean): the metadata slot of every record.
AllMetadataUnfiltered(store) == [i \in 1..Len(store) |-> store[i].metadata]

\* Line 183: the metadata of the records that have one.
AllMetadata(store) ==
  SelectSeq([i \in 1..Len(store) |-> store[i].metadata], Truthy)

\* A handler that leaves the sort buttons enabled while it waits.
SortButtonsLeftEnabled == FALSE

\* Line 191: btn.disabled = true on every sort button.
SortButtonsWhileSorting == TRUE

\* Buttons enabled as the last statement of the try block: skipped when the
\* block threw.
EnabledAtEndOfTry(threw) == threw

\* The finally of lines 200-202: btn.disabled = false on every sort button,
\* whether the try block threw or not.
EnabledInFinally(threw) == FALSE

\* Lines 193-202 once the Sorter call has settled with out: render, set the
\* status (the catch of line 197 takes a throw of the call or of
\* displaySortedResults), and enable the sort buttons again (finally).
\* threw tells whether the catch block ran.
SortingContinuation(container, store, sortBy, out) ==
  IF out.outcome = "threw"
  THEN [container |-> container, threw |-> TRUE,
        status |-> Status("An error occurred while sorting.", "", 0)]
  ELSE LET shown == displaySortedResults(container, out.result, store)
       IN  [container |-> shown.container, threw |-> shown.threw,
            status |-> IF shown.threw
                       THEN Status("An error occurred while sorting.", "", 0)
                       ELSE Status("Images sorted by", sortBy, 0)]

\* A click on the sort button of dimension sortBy (lines 179-194, up to the
\* await).  A disabled button delivers no click, and neither does a button
\* inside hidden controls.  A click elsewhere in sortControls returns at
\* line 180 and changes nothing; it is not modelled.
handleSorting(sortBy) ==
  /\ ~sortBtnDisabled
  /\ ~sortControlsHidden
  /\ sorts < MaxSorts
  /\ lastEvent' = Event("sort", 0, NoResp, sortBy)
  /\ LET allMetadata == AllMetadata(imageDataStore)
         arg == Given(allMetadata)
     IN  IF Len(allMetadata) = 0
         THEN /\ statusContainer' = Status("No metadata available to sort.", "", 0)
              /\ UNCHANGED <<sortBtnDisabled, sortCalls, modelCalls,
                             resultsContainer, sorts>>
         ELSE IF SorterShortCircuits(arg)
              THEN LET cont == SortingContinuation(
                                 resultsContainer, imageDataStore, sortBy,
                                 [outcome |-> "returned", result |-> EmptyGroups])
                   IN  /\ statusContainer' = cont.status
                       /\ resultsContainer' = cont.container
                       /\ sortBtnDisabled' = EnabledInFinally(cont.threw)
                       /\ sorts' = sorts + 1
                       /\ UNCHANGED <<sortCalls, modelCalls>>
              ELSE /\ statusContainer' = Status("Sorting by", sortBy, 0)
                   /\ sortBtnDisabled' = SortButtonsWhileSorting
                   /\ sortCalls' = sortCalls \cup
                        {[id |-> sorts + 1, arg |-> arg, sortBy |-> sortBy,
                          upload |-> uploads]}
                   /\ modelCalls' = modelCalls + SorterRequests(arg)
                   /\ sorts' = sorts + 1
                   /\ UNCHANGED resultsContainer
  /\ UNCHANGED <<imageDataStore, metadataWrites, genCalls, generateBtnDisabled,
                 imageUploadDisabled, userInputDisabled, sortControlsHidden, uploads>>
  /\ UNCHANGED apiVars

\* The answer resp to the request of the Sorter call c arrives: the call
\* returns and handleSorting goes on after its await.
SortResponds(c, resp) ==
  /\ c \in sortCalls
  /\ LET cont == SortingContinuation(resultsContainer, imageDataStore, c.sortBy,
                                     SorterOutcome(resp))
     IN  /\ resultsContainer' = cont.container
         /\ statusContainer' = cont.status
         /\ sortBtnDisabled' = EnabledInFinally(cont.threw)
  /\ sortCalls' = sortCalls \ {c}
  /\ lastEvent' = Event("sortResponds", c.id, resp, c.sortBy)
  /\ UNCHANGED <<imageDataStore, metadataWrites, genCalls, generateBtnDisabled,
                 imageUploadDisabled, userInputDisabled, sortControlsHidden,
                 modelCalls, uploads, sorts>>
  /\ UNCHANGED apiVars

Next ==
  \/ \E n \in 0..MaxImages : handleImageUpload(Selection(uploads + 1, n))
  \/ handleMetadataGeneration
  \/ \E i \in 1..MaxImages : FileRead(i)
  \/ \E i \in 1..MaxImages : FileReadFails(i)
  \/ \E i \in 1..MaxImages, resp \in ExtractorResponses : ModelResponds(i, resp)
  \/ \E sortBy \in SortDimensions : handleSorting(sortBy)
  \/ \E c \in sortCalls, resp \in SorterResponses : SortResponds(c, resp)

\* The page under every order of user events and model answers.
Spec == Init /\ [][Next]_vars

\* Every file read ends, with the file's content or with a failure
\* (FileReader fires loadend in both cases, line 14), and every request
\* sent to the model capability settles; the event loop then runs the
\* handler or continuation that waits for it.  Which way a read ends is
\* not decided here, and the user's events are under no obligation.
Fairness ==
  /\ \A i \in 1..MaxImages : WF_vars(FileRead(i) \/ FileReadFails(i))
  /\ \A i \in 1..MaxImages :
       WF_vars(\E resp \in ExtractorResponses : ModelResponds(i, resp))
  /\ WF_vars(\E c \in sortCalls, resp \in SorterResponses : SortResponds(c, resp))

\* The page when every file read ends and every outbound call settles.
SpecFair == Spec /\ Fairness

\* ------------------------------------------- the exported functions, alone
\* generateImageMetadata and sortAndCategorizeImages are exported (lines 54,
\* 77); here a caller other than the page calls them, one call at a time,
\* with any batch and any argument.  apiExtract and apiSort hold the call
\* being looked at: a new call takes the place of the one before it.
\* Nothing of the call being looked at is still to arrive.
ApiIdle ==
  /\ \A i \in 1..Len(apiExtract.slots) :
        apiExtract.slots[i].st \in {"fulfilled", "rejected", "readFailed"}
  /\ apiSort.outcome # "pending"

\* generateImageMetadata(ai, images): the synchronous part, lines 55-61.
generateImageMetadata(images) ==
  /\ ApiIdle
  /\ apiCalls < MaxApiCalls
  /\ apiCalls' = apiCalls + 1
  /\ apiExtract' = ExtractorStart(images)
  /\ apiSort' = NoSorterCall
  /\ lastEvent' = Event("apiGenerate", 0, NoResp, "")
  /\ UNCHANGED modelCalls
  /\ UNCHANGED pageVars

\* The file of image i of the batch has been read; its request is sent.
ApiFileRead(i) ==
  /\ i \in 1..Len(apiExtract.slots)
  /\ apiExtract.slots[i].st = "reading"
  /\ apiExtract' = ExtractorFileRead(apiExtract, i)
  /\ modelCalls' = modelCalls + 1
  /\ lastEvent' = Event("apiFileRead", i, NoResp, "")
  /\ UNCHANGED <<apiSort, apiCalls>>
  /\ UNCHANGED pageVars

\* The read of the file of image i of the batch has failed.
ApiFileReadFails(i) ==
  /\ i \in 1..Len(apiExtract.slots)
  /\ apiExtract.slots[i].st = "reading"
  /\ apiExtract' = ExtractorFileReadFails(apiExtract, i)
  /\ lastEvent' = Event("apiFileReadFails", i, NoResp, "")
  /\ UNCHANGED <<apiSort, apiCalls, modelCalls>>
  /\ UNCHANGED pageVars

\* The answer to the request of image i of the batch arrives.
ApiModelResponds(i, resp) ==
  /\ i \in 1..Len(apiExtract.slots)
  /\ apiExtract.slots[i].st = "calling"
  /\ apiExtract' = ExtractorRespond(apiExtract, i, resp)
  /\ lastEvent' = Event("apiModelResponds", i, resp, "")
  /\ UNCHANGED <<apiSort, apiCalls, modelCalls>>
  /\ UNCHANGED pageVars

\* sortAndCategorizeImages(ai, arg, sortBy) up to its await (lines 78-87).
sortAndCategorizeImages(arg, sortBy) ==
  /\ ApiIdle
  /\ apiCalls < MaxApiCalls
  /\ apiCalls' = apiCalls + 1
  /\ apiSort' = IF SorterShortCircuits(arg)
                THEN [outcome |-> "returned", arg |-> arg, result |-> EmptyGroups]
                ELSE [outcome |-> "pending", arg |-> arg, result |-> EmptyGroups]
  /\ modelCalls' = modelCalls + SorterRequests(arg)
  /\ lastEvent' = Event("apiSort", 0, NoResp, sortBy)
  /\ apiExtract' = ExtractorStart(<<>>)
  /\ UNCHANGED pageVars

\* The answer to the Sorter's request arrives (lines 87-92).
ApiSortResponds(resp) ==
  /\ apiSort.outcome = "pending"
  /\ LET out == SorterOutcome(resp)
     IN  apiSort' = [outcome |-> out.outcome, arg |-> apiSort.arg,
                     result |-> out.result]
  /\ lastEvent' = Event("apiSortResponds", 0, resp, "")
  /\ UNCHANGED <<apiExtract, apiCalls, modelCalls>>
  /\ UNCHANGED pageVars

\* The arguments a caller can pass as imageMetadataArray.
SorterArguments == {Missing} \cup {Given(ms) : ms \in SeqUpTo(Metadata, MaxImages)}

NextApi ==
  \/ \E n \in 0..MaxImages : generateImageMetadata(Selection(0, n))
  \/ \E i \in 1..MaxImages : ApiFileRead(i)
  \/ \E i \in 1..MaxImages : ApiFileReadFails(i)
  \/ \E i \in 1..MaxImages, resp \in ExtractorResponses : ApiModelResponds(i, resp)
  \/ \E arg \in SorterArguments, sortBy \in SortDimensions :
        sortAndCategorizeImages(arg, sortBy)
  \/ \E resp \in SorterResponses : ApiSortResponds(resp)

\* The page is not used: it stays as it was loaded.
InitApi == Init /\ generateBtnDisabled /\ sortControlsHidden

\* The two exported functions under every order of answers.
SpecApi == InitApi /\ [][NextApi]_vars

\* ----------------------------------------------------------------- claims
\* An answer that fails its call: generateContent rejects, or the text is
\* cut short and is no JSON text.
FailedAnswer(resp) == resp.rejects \/ resp.text = Truncated(resp.text[2])

\* The slot has received its answer.
Answered(slot) == slot.answer # Null

\* C1: generateImageMetadata never rejects, and once the model call or the
\* JSON parse has failed for at least one image of the batch, the call has
\* returned the empty sequence, whatever the other images did.
C1_FailureYieldsEmpty ==
  /\ apiExtract.outcome # "threw"
  /\ (\E i \in 1..Len(apiExtract.slots) :
        /\ Answered(apiExtract.slots[i])
        /\ FailedAnswer(apiExtract.slots[i].answer))
     => (apiExtract.outcome = "returned" /\ apiExtract.result = <<>>)

\* C1 witness: a batch of two in which one image succeeded and one failed.
C1_Witness ==
  /\ Len(apiExtract.slots) = 2
  /\ \E i, j \in 1..2 :
       /\ Answered(apiExtract.slots[i])
       /\ ~FailedAnswer(apiExtract.slots[i].answer)
       /\ Answered(apiExtract.slots[j])
       /\ FailedAnswer(apiExtract.slots[j].answer)
  /\ apiExtract.outcome = "returned"
  /\ apiExtract.result = <<>>

\* Every image of the batch has received an answer that did not fail.
AllSucceeded(call) ==
  \A i \in 1..Len(call.slots) :
    Answered(call.slots[i]) /\ ~FailedAnswer(call.slots[i].answer)

\* C2: for a non-empty batch in which every per-image call succeeded, the
\* call has returned a sequence as long as the batch whose entry i is the
\* value the answer to image i's request wrote, in whatever order the
\* answers arrived.
C2_ResultsInInputOrder ==
  (Len(apiExtract.slots) > 0 /\ AllSucceeded(apiExtract))
  => /\ apiExtract.outcome = "returned"
     /\ Len(apiExtract.result) = Len(apiExtract.slots)
     /\ \A i \in 1..Len(apiExtract.slots) :
          apiExtract.slots[i].answer.text = JSONStringify(apiExtract.result[i])

\* C2 witness: a batch of two with different answers, the second image's
\* answer having arrived first.
C2_Witness ==
  /\ Len(apiExtract.slots) = 2
  /\ AllSucceeded(apiExtract)
  /\ lastEvent.op = "apiModelResponds"
  /\ lastEvent.index = 1
  /\ apiExtract.outcome = "returned"
  /\ apiExtract.result[1] # apiExtract.result[2]

\* C3: sortAndCategorizeImages called with an empty or missing metadata
\* sequence returns the empty group list at once and sends no request to
\* the model capability: the call counter is unchanged by the call.
C3_EmptyInputShortCircuits ==
  [][(lastEvent'.op = "apiSort"
      /\ (apiSort'.arg.missing \/ Len(apiSort'.arg.items) = 0))
     => /\ apiSort'.outcome = "returned"
        /\ apiSort'.result = [sorted_groups |-> <<>>]
        /\ modelCalls' = modelCalls]_vars

\* C3 witness: a call with the empty sequence has returned, after an earlier
\* call had used the model.
C3_Witness ==
  /\ lastEvent.op = "apiSort"
  /\ ~apiSort.arg.missing
  /\ Len(apiSort.arg.items) = 0
  /\ apiSort.outcome = "returned"
  /\ modelCalls > 0

\* C4: when the model call of a Sorter call fails or its text is no JSON,
\* the call resolves to the empty group list: the page shows the 'Could not
\* sort' placeholder that displaySortedResults renders for an empty list,
\* and the status is 'Images sorted by <dimension>', never the 'An error
\* occurred while sorting.' of handleSorting's catch.
C4_SorterFailureIsEmptyList ==
  (lastEvent.op = "sortResponds" /\ FailedAnswer(lastEvent.resp))
  => /\ statusContainer = Status("Images sorted by", lastEvent.sortBy, 0)
     /\ statusContainer.text # "An error occurred while sorting."
     /\ resultsContainer.placeholder
     /\ resultsContainer.groups = <<>>

\* C4 witness: a Sorter request was rejected and the page shows the
\* placeholder.
C4_Witness ==
  /\ lastEvent.op = "sortResponds"
  /\ lastEvent.resp.rejects
  /\ resultsContainer.placeholder
  /\ statusContainer.text = "Images sorted by"

\* The preview card of record index, as a sequence of zero or one bodies.
CardBody(container, index) ==
  LET ks == {k \in 1..Len(container.cards) : container.cards[k].id = index}
  IN  IF ks = {} THEN <<>> ELSE <<container.cards[CHOOSE k \in ks : TRUE].body>>

\* C5: handleMetadataGeneration isolates failures per image.  When the
\* answer for record i has been handled: if it failed, the record holds no
\* metadata and its card shows 'Failed to analyze this image.'; if it
\* succeeded, the record holds the value the answer wrote and its card
\* shows it; and the records of the other images are as they were.
C5_PerImageIsolation ==
  (lastEvent.op = "modelResponds")
  => LET i == lastEvent.index
     IN  IF FailedAnswer(lastEvent.resp)
         THEN /\ ~Truthy(imageDataStore[i].metadata)
              /\ CardBody(resultsContainer, i) = <<Body("error", Null)>>
         ELSE /\ lastEvent.resp.text = JSONStringify(imageDataStore[i].metadata)
              /\ CardBody(resultsContainer, i)
                   = <<Body("metadata", imageDataStore[i].metadata)>>

\* C5, the part about the records alone.
C5_RecordsIsolated ==
  (lastEvent.op = "modelResponds")
  => LET i == lastEvent.index
     IN  IF FailedAnswer(lastEvent.resp)
         THEN ~Truthy(imageDataStore[i].metadata)
         ELSE lastEvent.resp.text = JSONStringify(imageDataStore[i].metadata)

\* C5, the part about the cards, while the preview cards are in the page.
C5_CardsWhilePreviewed ==
  (lastEvent.op = "modelResponds" /\ HasCard(resultsContainer, lastEvent.index))
  => LET i == lastEvent.index
     IN  IF FailedAnswer(lastEvent.resp)
         THEN CardBody(resultsContainer, i) = <<Body("error", Null)>>
         ELSE CardBody(resultsContainer, i)
                = <<Body("metadata", imageDataStore[i].metadata)>>

\* C6: fan-out and fan-in of handleMetadataGeneration.  Right after the
\* click every record's call has been started and none has been awaited to
\* its end; and while a call is outstanding the status is not 'Analysis
\* complete!', the sort controls are hidden and the upload and focus-hint
\* inputs are disabled.
C6_FanOutFanIn ==
  /\ (lastEvent.op = "generate" /\ Len(imageDataStore) > 0)
     => /\ Len(genCalls) = Len(imageDataStore)
        /\ \A i \in 1..Len(genCalls) :
             genCalls[i].outcome = "pending" /\ genCalls[i].slots[1].st = "reading"
  /\ (Outstanding # {})
     => /\ statusContainer.text # "Analysis complete!"
        /\ sortControlsHidden
        /\ imageUploadDisabled
        /\ userInputDisabled

\* C6 witness: of two calls one has settled and one is outstanding, and the
\* inputs are still disabled.
C6_Witness ==
  /\ Len(genCalls) = 2
  /\ Cardinality(Outstanding) = 1
  /\ lastEvent.op = "modelResponds"
  /\ imageUploadDisabled
  /\ sortControlsHidden

\* C7: at most one Sorter call is outstanding at any time.
C7_OneSorterCall == Cardinality(sortCalls) <= 1

\* C7 witness: a Sorter call is outstanding while a generation run on a
\* newly uploaded collection is in flight.
C7_Witness ==
  /\ Cardinality(sortCalls) = 1
  /\ Outstanding # {}
  /\ sortBtnDisabled

\* C8: a record's metadata is assigned at most once in the record's
\* lifetime; a record that has been assigned keeps its metadata as long as
\* it is in the store; and the sort click and the Sorter's answer leave the
\* store as it is.
C8_MetadataWrittenOnce ==
  /\ [](\A i \in 1..Len(metadataWrites) : metadataWrites[i] <= 1)
  /\ [][\A i \in 1..Len(imageDataStore) :
          (/\ i <= Len(imageDataStore')
           /\ imageDataStore'[i].previewUrl = imageDataStore[i].previewUrl
           /\ metadataWrites[i] >= 1)
          => imageDataStore'[i].metadata = imageDataStore[i].metadata]_vars
  /\ [][lastEvent'.op \in {"sort", "sortResponds"}
        => imageDataStore' = imageDataStore]_vars

\* C8 witness: a Sorter answer has been rendered over records that hold the
\* metadata written once by the generation run.
C8_Witness ==
  /\ lastEvent.op = "sortResponds"
  /\ \E i \in 1..Len(imageDataStore) :
       metadataWrites[i] = 1 /\ Truthy(imageDataStore[i].metadata)
  /\ \E g \in 1..Len(resultsContainer.groups) :
       Len(resultsContainer.groups[g].cards) > 0

\* The last task rendered a Sorter answer that follows the schema: every
\* group carries a name and an images array.
RenderedGroups ==
  IF /\ lastEvent.op = "sortResponds"
     /\ ~FailedAnswer(lastEvent.resp)
     /\ \A g \in 1..Len(lastEvent.resp.text[2].sorted_groups) :
          ~lastEvent.resp.text[2].sorted_groups[g].images.missing
  THEN <<lastEvent.resp.text[2].sorted_groups>>
  ELSE <<>>

\* The records whose metadata is the member, and the records a member can
\* be matched to by its description.
RecordsEqualTo(member) ==
  {r \in 1..Len(imageDataStore) : imageDataStore[r].metadata = member}

SameDescription(member) ==
  {r \in 1..Len(imageDataStore) :
     /\ Truthy(imageDataStore[r].metadata)
     /\ imageDataStore[r].metadata.description = member.description}

\* C9: a record returned unchanged inside a group is re-identifiable.  In a
\* group whose members are each the metadata of a stored record, member k
\* is rendered as card k, and when the member is the metadata of exactly
\* one record r, that card shows the preview of record r.
C9_MemberRendersOwnRecord ==
  \A a \in 1..Len(RenderedGroups) :
    \A g \in 1..Len(RenderedGroups[a]) :
      LET members == RenderedGroups[a][g].images.items
          cards   == resultsContainer.groups[g].cards
      IN  (\A k \in 1..Len(members) : RecordsEqualTo(members[k]) # {})
          => /\ Len(cards) = Len(members)
             /\ \A k \in 1..Len(members) :
                  \A r \in RecordsEqualTo(members[k]) :
                    RecordsEqualTo(members[k]) = {r}
                    => cards[k].img = imageDataStore[r].previewUrl

\* C10: under- and over-coverage are tolerated.  For every Sorter answer
\* whose groups each carry a name and an images array, displaySortedResults
\* raises nothing and the status ends as 'Images sorted by <dimension>'; an
\* empty group list shows the placeholder; otherwise every group has its
\* section, which holds one card per occurrence of a member whose
\* description is that of a stored record, and no card for the others.
C10_CoverageTolerated ==
  \A a \in 1..Len(RenderedGroups) :
    /\ statusContainer = Status("Images sorted by", lastEvent.sortBy, 0)
    /\ resultsContainer.placeholder = (Len(RenderedGroups[a]) = 0)
    /\ Len(resultsContainer.groups) = Len(RenderedGroups[a])
    /\ \A g \in 1..Len(RenderedGroups[a]) :
         LET members == RenderedGroups[a][g].images.items
             kept    == SelectSeq(members, LAMBDA m : SameDescription(m) # {})
             cards   == resultsContainer.groups[g].cards
         IN  /\ resultsContainer.groups[g].title = RenderedGroups[a][g].group_name
             /\ Len(cards) = Len(kept)
             /\ \A k \in 1..Len(kept) :
                  \E r \in SameDescription(kept[k]) :
                    cards[k] = [img |-> imageDataStore[r].previewUrl,
                                metadata |-> imageDataStore[r].metadata]

\* C10 witness: over-coverage with a repeated member.  The answer names
\* more members than there are records, the same member twice, and the one
\* record is rendered once per occurrence.
C10_Witness ==
  /\ Len(RenderedGroups) = 1
  /\ Len(imageDataStore) = 1
  /\ MemberCount(RenderedGroups[1]) > Len(imageDataStore)
  /\ Len(resultsContainer.groups) >= 1
  /\ Len(resultsContainer.groups[1].cards) = 2
  /\ resultsContainer.groups[1].cards[1] = resultsContainer.groups[1].cards[2]
  /\ statusContainer.text = "Images sorted by"

\* The .disabled flags and the visibility the handlers set.
Controls ==
  <<generateBtnDisabled, imageUploadDisabled, userInputDisabled,
    sortBtnDisabled, sortControlsHidden>>

\* C11: a new upload discards the previous session data.  After a change
\* event with at least one file the store holds exactly one record per
\* selected file, in selection order, each with metadata null, and no
\* record, file or preview of the store before it; a change event with no
\* file leaves the store, every control, the status and the results as they
\* were.
C11_UploadReplacesStore ==
  [][lastEvent'.op = "upload"
     => IF lastEvent'.index = 0
        THEN /\ imageDataStore' = imageDataStore
             /\ Controls' = Controls
             /\ statusContainer' = statusContainer
             /\ resultsContainer' = resultsContainer
        ELSE /\ Len(imageDataStore') = lastEvent'.index
             /\ \A i \in 1..Len(imageDataStore') :
                  /\ imageDataStore'[i].file = File(uploads', i)
                  /\ imageDataStore'[i].metadata = Null
                  /\ \A j \in 1..Len(imageDataStore) :
                       /\ imageDataStore'[i].file # imageDataStore[j].file
                       /\ imageDataStore'[i].previewUrl # imageDataStore[j].previewUrl]_vars

\* C11 witness: a second upload has replaced a collection whose metadata
\* had been generated and handed to the Sorter (the call is still
\* outstanding); the new records hold no metadata.
C11_Witness ==
  /\ lastEvent.op = "upload"
  /\ lastEvent.index >= 1
  /\ uploads = 2
  /\ sortCalls # {}
  /\ Len(imageDataStore) = lastEvent.index
  /\ \A i \in 1..Len(imageDataStore) : imageDataStore[i].metadata = Null

\* The records whose generation succeeded: their metadata slot holds a value.
Succeeded(store) == {i \in 1..Len(store) : store[i].metadata \in Metadata}

\* The k-th smallest element of a set of numbers.
Nth(S, k) == CHOOSE i \in S : Cardinality({j \in S : j <= i}) = k

\* C12: handleSorting passes to the Sorter only the metadata of the records
\* whose generation succeeded, in store order.  A sort click over a store
\* without any metadata sets the status 'No metadata available to sort.',
\* issues no Sorter call, sends nothing to the model and leaves the sort
\* buttons enabled; a sort click over a store with metadata issues one call
\* whose argument is exactly the metadata of the succeeded records; and no
\* outstanding Sorter call of the page has an empty or missing argument.
C12_OnlySucceededMetadata ==
  /\ [](\A c \in sortCalls :
          /\ ~c.arg.missing
          /\ Len(c.arg.items) > 0
          /\ \A k \in 1..Len(c.arg.items) : c.arg.items[k] \in Metadata)
  /\ [][lastEvent'.op = "sort"
        => IF Succeeded(imageDataStore) = {}
           THEN /\ statusContainer' = Status("No metadata available to sort.", "", 0)
                /\ sortCalls' = sortCalls
                /\ modelCalls' = modelCalls
                /\ ~sortBtnDisabled'
           ELSE \E c \in sortCalls' \ sortCalls :
                  /\ sortCalls' = sortCalls \cup {c}
                  /\ modelCalls' = modelCalls + 1
                  /\ ~c.arg.missing
                  /\ Len(c.arg.items) = Cardinality(Succeeded(imageDataStore))
                  /\ \A k \in 1..Len(c.arg.items) :
                       c.arg.items[k]
                         = imageDataStore[Nth(Succeeded(imageDataStore), k)].metadata]_vars

\* C12 witness: of two records the first failed and the second succeeded,
\* and the sort click has issued a call with the second record's metadata
\* alone.
C12_Witness ==
  /\ lastEvent.op = "sort"
  /\ Len(imageDataStore) = 2
  /\ Succeeded(imageDataStore) = {2}
  /\ \E c \in sortCalls : c.arg.items = <<imageDataStore[2].metadata>>

\* C12 witness of the other case: a sort click over records that all failed
\* has only set the status.
C12_NoMetadataWitness ==
  /\ lastEvent.op = "sort"
  /\ Len(imageDataStore) > 0
  /\ Succeeded(imageDataStore) = {}
  /\ statusContainer.text = "No metadata available to sort."
  /\ sortCalls = {}
  /\ ~sortBtnDisabled

\* C13: every sort that is started re-enables the sort buttons.  The sort
\* buttons are disabled only while a Sorter call is outstanding; the task
\* in which the call settles leaves them enabled, whether the result was
\* populated, empty or one whose rendering threw; and when every call
\* settles, disabled sort buttons are eventually enabled again.
C13_SortButtonsReenabled ==
  /\ [](sortBtnDisabled => sortCalls # {})
  /\ [][lastEvent'.op = "sortResponds" => (~sortBtnDisabled' /\ sortCalls' = {})]_vars
  /\ (sortBtnDisabled ~> ~sortBtnDisabled)

\* C13 witness: the rendering of a Sorter answer threw (a group without an
\* images array), the catch set its status, and the buttons are enabled.
C13_Witness ==
  /\ lastEvent.op = "sortResponds"
  /\ ~FailedAnswer(lastEvent.resp)
  /\ statusContainer.text = "An error occurred while sorting."
  /\ ~sortBtnDisabled
  /\ sortCalls = {}

\* C14: the sorted view always reflects the current collection.  The task
\* in which a Sorter call settles renders its answer only when the call's
\* argument was taken from the records now in the store: the call was
\* issued after the latest upload and its argument is the metadata those
\* records hold; a call issued before the latest upload leaves the results
\* container, with the preview cards of the new collection, as it is.
C14_SortedViewIsCurrent ==
  [][lastEvent'.op = "sortResponds"
     => \A c \in sortCalls \ sortCalls' :
          IF c.upload = uploads
          THEN c.arg = Given(AllMetadata(imageDataStore))
          ELSE resultsContainer' = resultsContainer]_vars

\* C14, the part that holds: a call that settles with no upload since it
\* was issued renders groups computed from the metadata now in the store.
C14_CurrentWithoutUpload ==
  [][lastEvent'.op = "sortResponds"
     => \A c \in sortCalls \ sortCalls' :
          c.upload = uploads => c.arg = Given(AllMetadata(imageDataStore))]_vars

\* C14, the state the race ends in: a sorted view over a collection none of
\* whose records has metadata yet, its preview cards gone.
C14_StaleViewReached ==
  /\ lastEvent.op = "sortResponds"
  /\ resultsContainer.sorted
  /\ Len(imageDataStore) > 0
  /\ Succeeded(imageDataStore) = {}
  /\ resultsContainer.cards = <<>>

\* C15: at most one generation batch is in flight and the collection cannot
\* change under it.  While a per-image call of the batch is outstanding the
\* generate button, the upload input and the focus-hint input are disabled,
\* and no step starts a batch or delivers an upload: the records keep their
\* files and the calls of the batch stay the same calls.  Only an upload
\* with at least one file enables the generate button again, and a batch
\* starts only over a collection for which none has been started.
C15_OneBatchPerCollection ==
  /\ [](Outstanding # {}
          => generateBtnDisabled /\ imageUploadDisabled /\ userInputDisabled)
  /\ [][Outstanding # {}
        => /\ lastEvent'.op \notin {"generate", "upload"}
           /\ Len(genCalls') = Len(genCalls)
           /\ Len(imageDataStore') = Len(imageDataStore)
           /\ \A i \in 1..Len(imageDataStore) :
                /\ imageDataStore'[i].file = imageDataStore[i].file
                /\ imageDataStore'[i].previewUrl = imageDataStore[i].previewUrl]_vars
  /\ [][(generateBtnDisabled /\ ~generateBtnDisabled')
        => (lastEvent'.op = "upload" /\ lastEvent'.index >= 1)]_vars
  /\ [][(lastEvent'.op = "generate" /\ Len(imageDataStore) > 0)
        => /\ genCalls = <<>>
           /\ \A i \in 1..Len(imageDataStore) :
                metadataWrites[i] = 0 /\ imageDataStore[i].metadata = Null]_vars

\* C15 witness: the batch of the second collection, of two images, has
\* completed; the upload input is enabled again and the generate button is
\* still disabled.
C15_Witness ==
  /\ lastEvent.op = "modelResponds"
  /\ uploads = 2
  /\ Len(genCalls) = 2
  /\ Outstanding = {}
  /\ generateBtnDisabled
  /\ ~imageUploadDisabled
  /\ ~userInputDisabled

\* The batch has completed: lines 173-176 have run and nothing has changed
\* what they set.
BatchCompleted ==
  /\ Len(genCalls) > 0
  /\ Outstanding = {}
  /\ statusContainer.text = "Analysis complete!"
  /\ ~sortControlsHidden
  /\ ~imageUploadDisabled
  /\ ~userInputDisabled

\* A file read of the batch has failed.
ReadFailed == \E i \in 1..Len(genCalls) : genCalls[i].slots[1].st = "readFailed"

\* C16: when every model call of a generation batch settles, the batch
\* reaches 'Analysis complete!' with the sort controls visible and the
\* upload and focus-hint inputs enabled again, whatever mix of images
\* failed and succeeded; and as long as a call of the batch has not
\* settled the two inputs stay disabled: only the task in which the last
\* call settles enables them.
C16_BatchCompletes ==
  /\ ((Outstanding # {}) ~> BatchCompleted)
  /\ [](Outstanding # {} => (imageUploadDisabled /\ userInputDisabled))
  /\ [][((imageUploadDisabled /\ ~imageUploadDisabled')
         \/ (userInputDisabled /\ ~userInputDisabled'))
        => (lastEvent'.op = "modelResponds" /\ Outstanding' = {})]_vars

\* C16, the part that holds: a batch none of whose file reads fails
\* completes once its model calls have settled, and the inputs are enabled
\* by nothing but the completion.
C16_CompletesWhenReadsSucceed ==
  /\ ((Outstanding # {}) ~> (BatchCompleted \/ ReadFailed))
  /\ [](Outstanding # {} => (imageUploadDisabled /\ userInputDisabled))
  /\ [][((imageUploadDisabled /\ ~imageUploadDisabled')
         \/ (userInputDisabled /\ ~userInputDisabled'))
        => (lastEvent'.op = "modelResponds" /\ Outstanding' = {})]_vars

\* C16, the state the batch hangs in: of two images the read of one has
\* failed, the other's model call, the only one issued, has settled, and
\* the status and the controls are those of a running batch.  No file
\* read, answer, upload or click is left to come.
C16_HangReached ==
  /\ Len(genCalls) = 2
  /\ \E i, j \in 1..2 :
       /\ genCalls[i].slots[1].st = "readFailed"
       /\ genCalls[j].slots[1].st = "fulfilled"
  /\ sortCalls = {}
  /\ statusContainer.text = "Analyzing images..."
  /\ generateBtnDisabled /\ imageUploadDisabled /\ userInputDisabled
  /\ sortControlsHidden

\* A batch of two, one image failed at the model and one succeeded, has
\* completed.
C16_MixCompleted ==
  /\ BatchCompleted
  /\ lastEvent.op = "modelResponds"
  /\ Len(imageDataStore) = 2
  /\ Cardinality(Succeeded(imageDataStore)) = 1
  /\ \E i \in 1..2 : FailedAnswer(genCalls[i].slots[1].answer)
=============================================================================
